---- MODULE Spec2Model ----
(***************************************************************************)
(* MCP server testing framework (src/main.py).                             *)
(*                                                                         *)
(* The model covers the five probe coroutines (test_fetch_server,          *)
(* test_filesystem_server, test_playwright_server,                         *)
(* test_sequential_thinking_server, test_server_with_auth) and the         *)
(* orchestrator run_all_server_tests.  A coroutine runs atomically from    *)
(* one await of server_registry.call_tool to the next, as asyncio          *)
(* schedules it; the registry's answer to each call is chosen by the       *)
(* environment.                                                            *)
(*                                                                         *)
(* The specifications share the probe actions:                             *)
(*   Spec            one run of run_all_server_tests;                      *)
(*   SpecLive        that run under a fair event loop;                     *)
(*   SpecFull        the run over the whole catalog of fifteen servers;    *)
(*   SpecHang        the run when one server never answers;                *)
(*   SpecHangGather  the same when that server is a no-auth one;           *)
(*   SpecScenario    the run over a four-probe catalog;                    *)
(*   SpecProbe       one direct invocation of a single probe tool.         *)
(*   SpecSummary     the run over the whole catalog with a call of         *)
(*                   get_server_status_summary at any moment.              *)
(***************************************************************************)
EXTENDS Integers, Sequences, FiniteSets, TLC

VARIABLES
    app_ctx,    \* the context handed to the tool: None, or its registry's server_configs
    hung,       \* the servers whose call_tool never returns
    catalog,    \* the probe lists run_all_server_tests iterates over
    pc,         \* control point of run_all_server_tests ("direct": a probe tool called on its own)
    coro,       \* slot -> probe coroutine; slots 1..4 are the gathered tasks, slot 0 the awaited call
    k,          \* index of the current entry of api_key_servers / oauth_servers
    results,    \* the list `results` of run_all_server_tests
    summary,    \* the dict `summary` once built
    saved,      \* whether the report file has been written
    returned,   \* the value run_all_server_tests returned to its caller
    status_summary  \* the value get_server_status_summary returned, once called

vars == <<app_ctx, hung, catalog, pc, coro, k, results, summary, saved, returned,
         status_summary>>

None == [none |-> TRUE]

(***************************************************************************)
(* Text.  TLC cannot index a string, so the texts that are searched for    *)
(* keywords are spelled out character by character in CharsOf; str.lower   *)
(* and the `in` substring test work on these character sequences.          *)
(***************************************************************************)
CharsOf(s) ==
    CASE s = "connection timeout, token expired" ->
         <<"c", "o", "n", "n", "e", "c", "t", "i", "o", "n", " ", "t", "i", "m", "e", "o", "u", "t", ",", " ", "t", "o", "k", "e", "n", " ", "e", "x", "p", "i", "r", "e", "d">>
      [] s = "401 Unauthorized" ->
         <<"4", "0", "1", " ", "U", "n", "a", "u", "t", "h", "o", "r", "i", "z", "e", "d">>
      [] s = "server not configured" ->
         <<"s", "e", "r", "v", "e", "r", " ", "n", "o", "t", " ", "c", "o", "n", "f", "i", "g", "u", "r", "e", "d">>
      [] s = "weird 500" ->
         <<"w", "e", "i", "r", "d", " ", "5", "0", "0">>
      [] s = "connection refused" ->
         <<"c", "o", "n", "n", "e", "c", "t", "i", "o", "n", " ", "r", "e", "f", "u", "s", "e", "d">>
      [] s = "403 Forbidden" ->
         <<"4", "0", "3", " ", "F", "o", "r", "b", "i", "d", "d", "e", "n">>
      [] s = "Not Found" ->
         <<"N", "o", "t", " ", "F", "o", "u", "n", "d">>
      [] s = "no such server" ->
         <<"n", "o", " ", "s", "u", "c", "h", " ", "s", "e", "r", "v", "e", "r">>
      [] s = "authentication failed" ->
         <<"a", "u", "t", "h", "e", "n", "t", "i", "c", "a", "t", "i", "o", "n", " ", "f", "a", "i", "l", "e", "d">>
      [] s = "Request TIMEOUT" ->
         <<"R", "e", "q", "u", "e", "s", "t", " ", "T", "I", "M", "E", "O", "U", "T">>
      [] s = "OAuth flow required" ->
         <<"O", "A", "u", "t", "h", " ", "f", "l", "o", "w", " ", "r", "e", "q", "u", "i", "r", "e", "d">>
      [] s = "tokenizer failed" ->
         <<"t", "o", "k", "e", "n", "i", "z", "e", "r", " ", "f", "a", "i", "l", "e", "d">>
      [] s = "Unauthenticated" ->
         <<"U", "n", "a", "u", "t", "h", "e", "n", "t", "i", "c", "a", "t", "e", "d">>
      [] s = "token not found" ->
         <<"t", "o", "k", "e", "n", " ", "n", "o", "t", " ", "f", "o", "u", "n", "d">>
      [] s = "oauth 401" ->
         <<"o", "a", "u", "t", "h", " ", "4", "0", "1">>
      [] s = "401 not found" ->
         <<"4", "0", "1", " ", "n", "o", "t", " ", "f", "o", "u", "n", "d">>
      [] s = "connection not configured" ->
         <<"c", "o", "n", "n", "e", "c", "t", "i", "o", "n", " ", "n", "o", "t", " ", "c", "o", "n", "f", "i", "g", "u", "r", "e", "d">>
      [] s = "forbidden: connection reset" ->
         <<"f", "o", "r", "b", "i", "d", "d", "e", "n", ":", " ", "c", "o", "n", "n", "e", "c", "t", "i", "o", "n", " ", "r", "e", "s", "e", "t">>
      [] s = "refused: 403" ->
         <<"r", "e", "f", "u", "s", "e", "d", ":", " ", "4", "0", "3">>
      [] s = "timeout fetching token" ->
         <<"t", "i", "m", "e", "o", "u", "t", " ", "f", "e", "t", "c", "h", "i", "n", "g", " ", "t", "o", "k", "e", "n">>
      [] s = "internal error" ->
         <<"i", "n", "t", "e", "r", "n", "a", "l", " ", "e", "r", "r", "o", "r">>
      [] s = "" ->
         <<>>
      [] s = "'NoneType' object has no attribute 'content'" ->
         <<"'", "N", "o", "n", "e", "T", "y", "p", "e", "'", " ", "o", "b", "j", "e", "c", "t", " ", "h", "a", "s", " ", "n", "o", " ", "a", "t", "t", "r", "i", "b", "u", "t", "e", " ", "'", "c", "o", "n", "t", "e", "n", "t", "'">>
      [] s = "'ImageContent' object has no attribute 'text'" ->
         <<"'", "I", "m", "a", "g", "e", "C", "o", "n", "t", "e", "n", "t", "'", " ", "o", "b", "j", "e", "c", "t", " ", "h", "a", "s", " ", "n", "o", " ", "a", "t", "t", "r", "i", "b", "u", "t", "e", " ", "'", "t", "e", "x", "t", "'">>
      [] s = "not found" ->
         <<"n", "o", "t", " ", "f", "o", "u", "n", "d">>
      [] s = "not configured" ->
         <<"n", "o", "t", " ", "c", "o", "n", "f", "i", "g", "u", "r", "e", "d">>
      [] s = "no such server" ->
         <<"n", "o", " ", "s", "u", "c", "h", " ", "s", "e", "r", "v", "e", "r">>
      [] s = "unauthorized" ->
         <<"u", "n", "a", "u", "t", "h", "o", "r", "i", "z", "e", "d">>
      [] s = "authentication" ->
         <<"a", "u", "t", "h", "e", "n", "t", "i", "c", "a", "t", "i", "o", "n">>
      [] s = "forbidden" ->
         <<"f", "o", "r", "b", "i", "d", "d", "e", "n">>
      [] s = "401" ->
         <<"4", "0", "1">>
      [] s = "403" ->
         <<"4", "0", "3">>
      [] s = "timeout" ->
         <<"t", "i", "m", "e", "o", "u", "t">>
      [] s = "connection" ->
         <<"c", "o", "n", "n", "e", "c", "t", "i", "o", "n">>
      [] s = "refused" ->
         <<"r", "e", "f", "u", "s", "e", "d">>
      [] s = "oauth" ->
         <<"o", "a", "u", "t", "h">>
      [] s = "token" ->
         <<"t", "o", "k", "e", "n">>

ErrorTexts ==
    { "connection timeout, token expired",
      "401 Unauthorized",
      "server not configured",
      "weird 500",
      "connection refused",
      "403 Forbidden",
      "Not Found",
      "no such server",
      "authentication failed",
      "Request TIMEOUT",
      "OAuth flow required",
      "tokenizer failed",
      "Unauthenticated",
      "token not found",
      "oauth 401",
      "401 not found",
      "connection not configured",
      "forbidden: connection reset",
      "refused: 403",
      "timeout fetching token",
      "internal error",
      "" }

UpperCase == <<"A","B","C","D","E","F","G","H","I","J","K","L","M",
               "N","O","P","Q","R","S","T","U","V","W","X","Y","Z">>
LowerCase == <<"a","b","c","d","e","f","g","h","i","j","k","l","m",
               "n","o","p","q","r","s","t","u","v","w","x","y","z">>

\* str.lower on one character
LowerChar(c) ==
    IF \E i \in DOMAIN UpperCase : UpperCase[i] = c
    THEN LowerCase[CHOOSE i \in DOMAIN UpperCase : UpperCase[i] = c]
    ELSE c

\* str.lower; SubSeq makes the result a tuple of characters
lower(cs) == SubSeq([i \in DOMAIN cs |-> LowerChar(cs[i])], 1, Len(cs))

\* Python's `needle in hay` on strings
Contains(hay, needle) ==
    \E i \in 0..(Len(hay) - Len(needle)) :
        SubSeq(hay, i + 1, i + Len(needle)) = needle

\* any(x in error_msg.lower() for x in keywords)
AnyIn(keywords, error_msg) ==
    \E msg \in {lower(CharsOf(error_msg))} :
        \E x \in keywords : \E kw \in {CharsOf(x)} : Contains(msg, kw)

not_configured_keywords == {"not found", "not configured", "no such server"}
auth_error_keywords == {"unauthorized", "authentication", "forbidden", "401", "403"}
connection_error_keywords == {"timeout", "connection", "refused"}
oauth_required_keywords == {"oauth", "token"}

\* A plausible slip: the OAuth rule tested before the connection rule.
ClassifyOAuthFirst(error_msg) ==
    IF AnyIn(not_configured_keywords, error_msg)
    THEN [status |-> "not_configured",
          friendly_error |-> "Server or credentials not configured"]
    ELSE IF AnyIn(auth_error_keywords, error_msg)
    THEN [status |-> "auth_error",
          friendly_error |-> "Authentication failed - check credentials/OAuth flow"]
    ELSE IF AnyIn(oauth_required_keywords, error_msg)
    THEN [status |-> "oauth_required",
          friendly_error |-> "OAuth authentication required - run oauth flow first"]
    ELSE IF AnyIn(connection_error_keywords, error_msg)
    THEN [status |-> "connection_error",
          friendly_error |-> "Connection failed - server may be unreachable"]
    ELSE [status |-> "error", friendly_error |-> error_msg]

\* The if/elif chain that categorises the error text in test_server_with_auth.
Classify(error_msg) ==
    IF AnyIn(not_configured_keywords, error_msg)
    THEN [status |-> "not_configured",
          friendly_error |-> "Server or credentials not configured"]
    ELSE IF AnyIn(auth_error_keywords, error_msg)
    THEN [status |-> "auth_error",
          friendly_error |-> "Authentication failed - check credentials/OAuth flow"]
    ELSE IF AnyIn(connection_error_keywords, error_msg)
    THEN [status |-> "connection_error",
          friendly_error |-> "Connection failed - server may be unreachable"]
    ELSE IF AnyIn(oauth_required_keywords, error_msg)
    THEN [status |-> "oauth_required",
          friendly_error |-> "OAuth authentication required - run oauth flow first"]
    ELSE [status |-> "error", friendly_error |-> error_msg]

(***************************************************************************)
(* The catalog: the literals of run_all_server_tests.  The arguments       *)
(* dictionaries are passed through to call_tool untouched and are left     *)
(* out.                                                                    *)
(***************************************************************************)
no_auth_tests ==
    << "test_fetch_server", "test_filesystem_server",
       "test_playwright_server", "test_sequential_thinking_server" >>

api_key_servers ==
    << [server_name |-> "airweave-search", test_tool |-> "search", transport |-> "stdio"],
       [server_name |-> "circleci", test_tool |-> "get_pipelines", transport |-> "stdio"],
       [server_name |-> "perplexity", test_tool |-> "search", transport |-> "stdio"],
       [server_name |-> "maps-grounding-lite", test_tool |-> "search_places", transport |-> "streamable_http"],
       [server_name |-> "hubspot", test_tool |-> "search_contacts", transport |-> "streamable_http"],
       [server_name |-> "supabase", test_tool |-> "list_projects", transport |-> "streamable_http"] >>

oauth_servers ==
    << [server_name |-> "atlassian", test_tool |-> "search_issues", transport |-> "sse"],
       [server_name |-> "figma", test_tool |-> "get_file", transport |-> "streamable_http"],
       [server_name |-> "github", test_tool |-> "search_repositories", transport |-> "streamable_http"],
       [server_name |-> "linear", test_tool |-> "search_issues", transport |-> "streamable_http"],
       [server_name |-> "notion", test_tool |-> "search", transport |-> "streamable_http"] >>

\* The "server" value each no-auth probe reports.
ServerOf(fn) ==
    CASE fn = "test_fetch_server" -> "fetch"
      [] fn = "test_filesystem_server" -> "filesystem"
      [] fn = "test_playwright_server" -> "playwright"
      [] fn = "test_sequential_thinking_server" -> "sequential-thinking"

\* test_descriptions of test_server_with_auth
test_descriptions ==
    [s \in {"github", "linear", "notion", "perplexity", "supabase", "hubspot",
            "circleci", "figma", "atlassian", "airweave", "maps-grounding-lite"} |->
        CASE s = "github" -> "Search top Python AI repos with >1000 stars"
          [] s = "linear" -> "Find in-progress bugs in Linear"
          [] s = "notion" -> "Search for meeting notes"
          [] s = "perplexity" -> "Query latest LLM developments"
          [] s = "supabase" -> "List Supabase projects"
          [] s = "hubspot" -> "Search CRM contacts"
          [] s = "circleci" -> "Get React repository pipelines"
          [] s = "figma" -> "Access design file"
          [] s = "atlassian" -> "Query JIRA in-progress issues"
          [] s = "airweave" -> "Search AI/ML knowledge base"
          [] s = "maps-grounding-lite" -> "Find SF coffee shops"]

\* desc = test_description or test_descriptions.get(server_name, f"Call {test_tool}")
\* (the orchestrator never passes test_description)
Desc(server_name, test_tool) ==
    IF server_name \in DOMAIN test_descriptions
    THEN test_descriptions[server_name]
    ELSE "Call " \o test_tool

AuthEntries == { api_key_servers[i] : i \in DOMAIN api_key_servers }
                   \cup { oauth_servers[i] : i \in DOMAIN oauth_servers }
AuthServers == { e.server_name : e \in AuthEntries }

\* Bounds: how many entries of api_key_servers / oauth_servers a modelled run covers.
MaxApiKey == 1
MaxOAuth == 1

Prefix(s, n) == SubSeq(s, 1, IF n < Len(s) THEN n ELSE Len(s))

\* datetime.now().isoformat(): the clock is not modelled
Now == "<now>"

(***************************************************************************)
(* What call_tool can answer.  A text payload is described by what the     *)
(* probes read of it: its length, what json.loads makes of it, and the     *)
(* markers it contains.                                                    *)
(***************************************************************************)
Exc(type, text) == [type |-> type, text |-> text]

Raise(text) == [kind |-> "raise", exc |-> Exc("Exception", text)]
Result(content) == [kind |-> "result", content |-> content]
NoneResult == [kind |-> "none"]

Invalid == [type |-> "invalid"]
JList(n) == [type |-> "list", n |-> n]
JDict(title, score) == [type |-> "dict", title |-> title, score |-> score]

Txt(len, json, marks) == [type |-> "text", len |-> len, json |-> json, marks |-> marks]
\* a directory listing, the README, a page snapshot: with the counts the probes report
Listing(len, json, marks, lines, config_files) ==
    [type |-> "text", len |-> len, json |-> json, marks |-> marks,
     lines |-> lines, config_files |-> config_files]
Readme(len, marks, lines) ==
    [type |-> "text", len |-> len, json |-> Invalid, marks |-> marks, lines |-> lines]
Snapshot(len, marks, repos) ==
    [type |-> "text", len |-> len, json |-> Invalid, marks |-> marks, repos |-> repos]
\* the empty string
EmptyText == Txt(0, Invalid, {})
Image == [type |-> "image"]

Raises(texts) == { Raise(t) : t \in texts }
Malformed == { NoneResult, Result(<<Image>>) }

\* The answers to call number c.calls of coroutine c when one probe tool is
\* exercised on its own.
ProbeResponses(c) ==
    LET n == c.calls
        indep == Raises(ErrorTexts) \cup Malformed
    IN CASE c.fn = "test_fetch_server" /\ n = 1 ->
              indep \cup { Result(<<>>),
                           Result(<<Txt(120, JList(3), {})>>),
                           Result(<<Txt(7, JList(3), {})>>),
                           Result(<<Txt(25, Invalid, {})>>),
                           Result(<<Txt(20, JDict(None, 0), {})>>),
                           Result(<<Txt(12, JList(0), {})>>) }
         [] c.fn = "test_fetch_server" /\ n = 2 ->
              indep \cup { Result(<<>>),
                           Result(<<Txt(60, JDict([len |-> 40], 312), {})>>),
                           Result(<<Txt(400, JDict([len |-> 300], 312), {})>>),
                           Result(<<Txt(30, JDict(None, 5), {})>>),
                           Result(<<Txt(30, JDict([len |-> 0], 5), {})>>),
                           Result(<<Txt(15, JList(3), {})>>),
                           Result(<<Txt(25, Invalid, {})>>) }
         [] c.fn = "test_filesystem_server" /\ n = 1 ->
              indep \cup { Result(<<>>),
                           Result(<<Listing(40, JList(4), {"["}, 1, 2)>>),
                           Result(<<Listing(5, Invalid, {}, 1, 0)>>),
                           Result(<<Listing(40, Invalid, {"["}, 3, 1)>>),
                           Result(<<Listing(40, Invalid, {}, 3, 1)>>) }
         [] c.fn = "test_filesystem_server" /\ n = 2 ->
              indep \cup { Result(<<>>),
                           Result(<<Readme(500, {"MCP"}, 20)>>),
                           Result(<<Readme(60, {"MCP"}, 2)>>),
                           Result(<<Readme(500, {}, 20)>>) }
         [] c.fn = "test_playwright_server" /\ n = 1 ->
              indep \cup { Result(<<Txt(30, Invalid, {})>>) }
         [] c.fn = "test_playwright_server" /\ n = 2 ->
              indep \cup { Result(<<>>),
                           Result(<<Snapshot(5000, {"trending"}, 10)>>),
                           Result(<<Snapshot(120, {"trending"}, 0)>>),
                           Result(<<Snapshot(300, {}, 0)>>) }
         [] c.fn = "test_sequential_thinking_server" ->
              indep \cup { Result(<<>>),
                           Result(<<Txt(30, Invalid, {})>>),
                           Result(<<Txt(80, Invalid, {})>>) }
         [] c.fn = "test_server_with_auth" ->
              indep \cup { Result(<<>>),
                           Result(<<Txt(1, Invalid, {})>>),
                           Result(<<Txt(120, Invalid, {})>>),
                           Result(<<Txt(150, Invalid, {})>>),
                           Result(<<Txt(300, Invalid, {})>>) }

\* Error texts the registry fails with during a modelled run.
RunIndepTexts == {"connection refused"}
RunAuthTexts == {"connection refused", "403 Forbidden", "OAuth flow required"}

\* The answers during a run of run_all_server_tests.  Each no-auth probe has
\* one way to fail and one to succeed: test_fetch_server and
\* test_filesystem_server fail at their first call,
\* test_sequential_thinking_server at its second, and test_playwright_server
\* gets a final payload that fails its check.  An authenticated probe gets
\* one error text of each kind or a good payload.
RunResponses(c) ==
    LET n == c.calls
    IN CASE c.fn = "test_fetch_server" /\ n = 1 ->
              Raises(RunIndepTexts) \cup { Result(<<Txt(120, JList(3), {})>>) }
         [] c.fn = "test_fetch_server" /\ n = 2 ->
              { Result(<<Txt(60, JDict([len |-> 40], 312), {})>>) }
         [] c.fn = "test_filesystem_server" /\ n = 1 ->
              Raises(RunIndepTexts) \cup { Result(<<Listing(40, JList(4), {"["}, 1, 2)>>) }
         [] c.fn = "test_filesystem_server" /\ n = 2 ->
              { Result(<<Readme(500, {"MCP"}, 20)>>) }
         [] c.fn = "test_playwright_server" /\ n = 1 ->
              { Result(<<Txt(30, Invalid, {})>>) }
         [] c.fn = "test_playwright_server" /\ n = 2 ->
              { Result(<<Snapshot(5000, {"trending"}, 10)>>),
                Result(<<Snapshot(300, {}, 0)>>) }
         [] c.fn = "test_sequential_thinking_server" /\ n = 1 ->
              { Result(<<Txt(30, Invalid, {})>>) }
         [] c.fn = "test_sequential_thinking_server" /\ n = 2 ->
              Raises(RunIndepTexts) \cup { Result(<<Txt(30, Invalid, {})>>) }
         [] c.fn = "test_sequential_thinking_server" /\ n = 3 ->
              { Result(<<Txt(30, Invalid, {})>>) }
         [] c.fn = "test_server_with_auth" ->
              Raises(RunAuthTexts) \cup { Result(<<Txt(120, Invalid, {})>>) }

\* What call_tool can answer to the pending call of coroutine c.
Responses(c) == IF pc = "direct" THEN ProbeResponses(c) ELSE RunResponses(c)

(***************************************************************************)
(* Probe coroutines.  `got` holds the call_tool answers received so far    *)
(* (the locals result, first_story_result, thought1, ...), `calls` the     *)
(* number of call_tool invocations made, `ret` the returned dict, or the   *)
(* exception when the coroutine raised.  An f-string is the tuple of its   *)
(* parts; the check mark that opens `details` is left out; a data_sample   *)
(* is represented by its length.                                           *)
(***************************************************************************)
Coro(fn, server_name, test_tool, transport) ==
    [fn |-> fn, server_name |-> server_name, test_tool |-> test_tool,
     transport |-> transport, pc |-> "created", calls |-> 0, got |-> <<>>, ret |-> None]

Idle == [Coro("none", "none", "none", "none") EXCEPT !.pc = "idle"]

\* the coroutine object of a no-auth probe function
NoAuthCoro(fn) == Coro(fn, ServerOf(fn), "none", "stdio")

\* test_server_with_auth(server_name=..., test_tool=..., transport=...)
AuthCoro(e) == Coro("test_server_with_auth", e.server_name, e.test_tool, e.transport)

\* suspended in `await app_ctx.server_registry.call_tool(...)`
Await(c) == [c EXCEPT !.pc = "await", !.calls = @ + 1]
\* `return {...}`
Return(c, d) == [c EXCEPT !.pc = "returned", !.ret = d]
\* an exception leaves the coroutine
RaiseOut(c, e) == [c EXCEPT !.pc = "raised", !.ret = e]

Min(a, b) == IF a < b THEN a ELSE b

\* len(str(n)) for the scores used
Digits(n) == IF n < 10 THEN 1 ELSE IF n < 100 THEN 2 ELSE IF n < 1000 THEN 3 ELSE 4

\* `result.content[0].text if result.content else ""`
ContentText(r) ==
    IF r.kind = "none"
    THEN [ok |-> FALSE,
          exc |-> Exc("AttributeError", "'NoneType' object has no attribute 'content'")]
    ELSE IF r.content = <<>>
    THEN [ok |-> TRUE, text |-> EmptyText]
    ELSE IF r.content[1].type # "text"
    THEN [ok |-> FALSE,
          exc |-> Exc("AttributeError", "'ImageContent' object has no attribute 'text'")]
    ELSE [ok |-> TRUE, text |-> r.content[1]]

JSONDecodeError == Exc("JSONDecodeError", "Expecting value: line 1 column 1 (char 0)")

\* the dict the `except Exception as e` branch of a no-auth probe returns
ErrorResult(server, e) ==
    [server |-> server, status |-> "error", transport |-> "stdio",
     auth_required |-> FALSE, error |-> e.text, error_type |-> e.type,
     timestamp |-> Now]

Last(c) == c.got[Len(c.got)]

\* test_fetch_server, from the answer to its call `c.calls` on
test_fetch_server(c) ==
    LET r == Last(c)
        t == ContentText(r)
        fail(e) == Return(c, ErrorResult("fetch", e))
    IN IF r.kind = "raise" THEN fail(r.exc)
       ELSE IF ~t.ok THEN fail(t.exc)
       ELSE IF c.calls = 1
       THEN IF t.text.len = 0 \/ t.text.len < 10
            THEN fail(Exc("ValueError", "No valid data received from Hacker News API"))
            ELSE IF t.text.json.type = "invalid" THEN fail(JSONDecodeError)
            ELSE IF t.text.json.type # "list" \/ t.text.json.n = 0
            THEN fail(Exc("ValueError", "Invalid response format - expected array of story IDs"))
            ELSE Await(c)
       ELSE LET story_ids == ContentText(c.got[1]).text.json
                story_data == t.text.json
            IN IF story_data.type = "invalid" THEN fail(JSONDecodeError)
               ELSE IF story_data.type # "dict"
               THEN fail(Exc("AttributeError", "'list' object has no attribute 'get'"))
               ELSE IF story_data.title = None \/ story_data.title.len = 0
               THEN fail(Exc("ValueError", "Story data missing title field"))
               ELSE Return(c,
                      [server |-> "fetch", status |-> "success", transport |-> "stdio",
                       auth_required |-> FALSE,
                       details |-> <<"Fetched ", story_ids.n, " top stories from Hacker News">>,
                       test_description |-> "Fetch latest tech news and validate data quality",
                       stories_count |-> story_ids.n,
                       top_story_title |-> story_data.title,
                       top_story_score |-> story_data.score,
                       \* f"Top story: {title} (Score: {score})"
                       data_sample |-> [len |-> 11 + story_data.title.len + 9
                                                 + Digits(story_data.score) + 1],
                       timestamp |-> Now])

\* test_filesystem_server
test_filesystem_server(c) ==
    LET r == Last(c)
        t == ContentText(r)
        fail(e) == Return(c, ErrorResult("filesystem", e))
    IN IF r.kind = "raise" THEN fail(r.exc)
       ELSE IF ~t.ok THEN fail(t.exc)
       ELSE IF c.calls = 1
       THEN IF t.text.len = 0 \/ t.text.len < 10
            THEN fail(Exc("ValueError", "No valid directory listing received"))
            ELSE IF "[" \in t.text.marks /\ t.text.json.type = "invalid"
            THEN fail(JSONDecodeError)
            ELSE Await(c)
       ELSE LET content == ContentText(c.got[1]).text
                readme_content == t.text
            IN IF readme_content.len = 0 \/ "MCP" \notin readme_content.marks
               THEN fail(Exc("ValueError", "Failed to read README.md or invalid content"))
               ELSE Return(c,
                      [server |-> "filesystem", status |-> "success", transport |-> "stdio",
                       auth_required |-> FALSE,
                       details |-> <<"Analyzed project: found config files and read README (",
                                     readme_content.lines, " lines)">>,
                       test_description |-> "Analyze project structure and read configuration files",
                       total_files |-> IF "[" \in content.marks
                                       THEN content.json.n ELSE content.lines,
                       config_files_found |-> content.config_files,
                       readme_lines |-> readme_content.lines,
                       \* f"README preview: {readme_content[:100]}..."
                       data_sample |-> [len |-> 16 + Min(readme_content.len, 100) + 3],
                       timestamp |-> Now])

\* test_playwright_server
test_playwright_server(c) ==
    LET r == Last(c)
        t == ContentText(r)
        fail(e) == Return(c, ErrorResult("playwright", e))
    IN IF r.kind = "raise" THEN fail(r.exc)
       ELSE IF c.calls = 1 THEN Await(c)
       ELSE IF ~t.ok THEN fail(t.exc)
       ELSE IF "trending" \notin t.text.marks
       THEN fail(Exc("ValueError", "Failed to load GitHub trending page"))
       ELSE Return(c,
              [server |-> "playwright", status |-> "success", transport |-> "stdio",
               auth_required |-> FALSE,
               details |-> <<"Loaded GitHub trending, found ", t.text.repos, " repo references">>,
               test_description |-> "Navigate to GitHub trending and extract repository data",
               page_loaded |-> "GitHub Trending",
               repo_references_found |-> t.text.repos,
               page_content_length |-> t.text.len,
               \* snapshot_content[:200] + "..."
               data_sample |-> [len |-> Min(t.text.len, 200) + 3],
               timestamp |-> Now])

\* test_sequential_thinking_server
test_sequential_thinking_server(c) ==
    LET r == Last(c)
        content1 == ContentText(c.got[1])
        content3 == ContentText(r)
        fail(e) == Return(c, ErrorResult("sequential-thinking", e))
    IN IF r.kind = "raise" THEN fail(r.exc)
       ELSE IF c.calls < 3 THEN Await(c)
       ELSE IF ~content1.ok THEN fail(content1.exc)
       ELSE IF ~content3.ok THEN fail(content3.exc)
       ELSE IF content1.text.len = 0 \/ content3.text.len = 0
       THEN fail(Exc("ValueError", "Failed to create complete thought sequence"))
       ELSE Return(c,
              [server |-> "sequential-thinking", status |-> "success", transport |-> "stdio",
               auth_required |-> FALSE,
               details |-> "Solved compound interest problem using 3-step reasoning",
               test_description |-> "Multi-step problem solving with structured reasoning",
               thoughts_created |-> 3,
               problem |-> "Compound interest calculation",
               solution |-> "$11,576.25",
               \* f"Problem->Formula->Solution: {content1[:50]}..."
               data_sample |-> [len |-> 26 + Min(content1.text.len, 50) + 3],
               timestamp |-> Now])

\* A plausible slip: the registry is not consulted before the call.
IsRegisteredAlways(server_name, ctx) == TRUE

\* `server_name in app_ctx.server_registry.server_configs`
IsRegistered(server_name, ctx) == server_name \in ctx.server_configs

\* the dict the `except Exception as e` branch of test_server_with_auth returns
AuthErrorResult(c, e) ==
    LET error_msg == e.text
        cls == Classify(error_msg)
    IN [server |-> c.server_name, status |-> cls.status, transport |-> c.transport,
        auth_required |-> TRUE, error |-> cls.friendly_error,
        error_detail |-> error_msg, error_type |-> e.type, timestamp |-> Now]

\* test_server_with_auth, from the answer to its call on.  An empty or
\* minimal response is only logged as a warning.
test_server_with_auth(c) ==
    LET r == Last(c)
        t == ContentText(r)
        desc == Desc(c.server_name, c.test_tool)
    IN IF r.kind = "raise" THEN Return(c, AuthErrorResult(c, r.exc))
       ELSE IF ~t.ok THEN Return(c, AuthErrorResult(c, t.exc))
       ELSE Return(c,
              [server |-> c.server_name, status |-> "success", transport |-> c.transport,
               auth_required |-> TRUE,
               details |-> <<desc>>,
               test_description |-> desc,
               response_length |-> t.text.len,
               \* content[:150] + "..." if len(content) > 150 else content
               data_sample |-> [len |-> IF t.text.len > 150 THEN 150 + 3 ELSE t.text.len],
               timestamp |-> Now])

\* The head of a probe, up to its first await: the logger is taken from
\* app_ctx outside the try block; test_server_with_auth then looks the
\* server up in the registry.
Enter(c, ctx) ==
    IF ctx = None
    THEN RaiseOut(c, Exc("AttributeError", "'NoneType' object has no attribute 'app'"))
    ELSE IF c.fn = "test_server_with_auth" /\ ~IsRegistered(c.server_name, ctx)
    THEN Return(c,
           [server |-> c.server_name, status |-> "not_configured",
            transport |-> c.transport, auth_required |-> TRUE,
            test_description |-> Desc(c.server_name, c.test_tool),
            error |-> "Server '" \o c.server_name \o "' not found in registry",
            timestamp |-> Now])
    ELSE Await(c)

\* The coroutine resumed with the answer r to its pending call_tool.
Resumed(c, r) ==
    LET d == [c EXCEPT !.got = Append(@, r)]
    IN CASE c.fn = "test_fetch_server" -> test_fetch_server(d)
         [] c.fn = "test_filesystem_server" -> test_filesystem_server(d)
         [] c.fn = "test_playwright_server" -> test_playwright_server(d)
         [] c.fn = "test_sequential_thinking_server" -> test_sequential_thinking_server(d)
         [] c.fn = "test_server_with_auth" -> test_server_with_auth(d)

(***************************************************************************)
(* run_all_server_tests                                                    *)
(***************************************************************************)
TaskSlots == 1..Len(no_auth_tests)
Slots == 0..Len(no_auth_tests)

\* A plausible slip: the join takes a suspended probe for a finished one.
DoneOrSuspended(c) == c.pc \in {"returned", "raised", "await"}

\* A plausible slip: the join waits for each probe to return a value and
\* takes no notice of one that raised.
DoneOnlyReturned(c) == c.pc = "returned"

\* the task of coroutine c is done
Done(c) == c.pc \in {"returned", "raised"}

\* A plausible slip: gather called without return_exceptions.
return_exceptions_off == FALSE

\* asyncio.gather(*no_auth_tests, return_exceptions=True)
return_exceptions == TRUE

\* A plausible slip: the entry recorded for a captured exception carries a
\* status outside the report's vocabulary.
ExceptionEntryFailed(test_result) ==
    [status |-> "failed", error |-> test_result.text, timestamp |-> Now]

\* the dict appended for a gathered value that is an Exception
ExceptionEntry(test_result) ==
    [status |-> "error", error |-> test_result.text, timestamp |-> Now]

\* A plausible slip: the values taken in reverse.
GatheredReversed(tasks) ==
    [i \in DOMAIN tasks |->
        LET c == tasks[Len(tasks) + 1 - i]
        IN IF c.pc = "raised" THEN ExceptionEntry(c.ret) ELSE c.ret]

\* A plausible slip: a gathered exception is logged but not recorded.
GatheredDropsExceptions(tasks) ==
    LET kept == SelectSeq(tasks, LAMBDA c : c.pc # "raised")
    IN [i \in DOMAIN kept |-> kept[i].ret]

\* The loop over the gathered values: they come in the order of the awaitables.
Gathered(tasks) ==
    [i \in DOMAIN tasks |->
        IF tasks[i].pc = "raised" THEN ExceptionEntry(tasks[i].ret) ELSE tasks[i].ret]

\* r.get("status") == s
StatusIs(r, s) == "status" \in DOMAIN r /\ r.status = s

\* len([r for r in results if r.get("status") == s])
Count(rs, s) == Cardinality({ i \in DOMAIN rs : StatusIs(rs[i], s) })

\* A plausible slip: other_errors filled with the total_errors count.
SummariseOtherIsTotal(rs) ==
    [test_run |->
        [timestamp |-> Now,
         total_servers |-> Len(rs),
         successful |-> Count(rs, "success"),
         not_configured |-> Count(rs, "not_configured"),
         auth_errors |-> Count(rs, "auth_error"),
         oauth_required |-> Count(rs, "oauth_required"),
         connection_errors |-> Count(rs, "connection_error"),
         other_errors |-> Cardinality({ i \in DOMAIN rs :
                              ~StatusIs(rs[i], "success")
                              /\ ~StatusIs(rs[i], "not_configured") }),
         total_errors |-> Cardinality({ i \in DOMAIN rs :
                              ~StatusIs(rs[i], "success")
                              /\ ~StatusIs(rs[i], "not_configured") })],
     results |-> rs]

\* A plausible slip: total_errors counts every result that is not a success.
SummariseUnconfiguredAsError(rs) ==
    [test_run |->
        [timestamp |-> Now,
         total_servers |-> Len(rs),
         successful |-> Count(rs, "success"),
         not_configured |-> Count(rs, "not_configured"),
         auth_errors |-> Count(rs, "auth_error"),
         oauth_required |-> Count(rs, "oauth_required"),
         connection_errors |-> Count(rs, "connection_error"),
         other_errors |-> Count(rs, "error"),
         total_errors |-> Cardinality({ i \in DOMAIN rs :
                              ~StatusIs(rs[i], "success") })],
     results |-> rs]

\* the dict `summary`
Summarise(rs) ==
    [test_run |->
        [timestamp |-> Now,
         total_servers |-> Len(rs),
         successful |-> Count(rs, "success"),
         not_configured |-> Count(rs, "not_configured"),
         auth_errors |-> Count(rs, "auth_error"),
         oauth_required |-> Count(rs, "oauth_required"),
         connection_errors |-> Count(rs, "connection_error"),
         other_errors |-> Count(rs, "error"),
         total_errors |-> Cardinality({ i \in DOMAIN rs :
                              ~StatusIs(rs[i], "success")
                              /\ ~StatusIs(rs[i], "not_configured") })],
     results |-> rs]

\* A plausible slip: the two lists taken in the other order.
PhaseListSwapped(phase) ==
    IF phase = "api_key" THEN catalog.oauth_servers ELSE catalog.api_key_servers

\* The list the sequential phase `phase` iterates over.
PhaseList(phase) ==
    IF phase = "api_key" THEN catalog.api_key_servers ELSE catalog.oauth_servers

\* A plausible slip: the OAuth phase is skipped when the API-key phase ended
\* on a failure.
AdvanceCancelsOnFailure(phase, idx) ==
    IF idx <= Len(PhaseList(phase)) THEN <<phase, idx>>
    ELSE IF /\ phase = "api_key" /\ Len(catalog.oauth_servers) > 0
            /\ ~(coro[0].pc = "returned" /\ coro[0].ret.status # "success")
    THEN <<"oauth", 1>>
    ELSE <<"report", 0>>

\* A plausible slip: an entry whose probe failed is run a second time.
AdvanceRetriesFailed(phase, idx) ==
    IF /\ coro[0].pc = "returned"
       /\ coro[0].ret.status \notin {"success", "not_configured"}
       /\ ~\E i \in DOMAIN results :
              "server" \in DOMAIN results[i] /\ results[i].server = coro[0].server_name
    THEN <<phase, idx - 1>>
    ELSE IF idx <= Len(PhaseList(phase)) THEN <<phase, idx>>
    ELSE IF phase = "api_key" /\ Len(catalog.oauth_servers) > 0 THEN <<"oauth", 1>>
    ELSE <<"report", 0>>

\* Where control goes once entry idx of `phase` is past the end of its list.
Advance(phase, idx) ==
    IF idx <= Len(PhaseList(phase)) THEN <<phase, idx>>
    ELSE IF phase = "api_key" /\ Len(catalog.oauth_servers) > 0 THEN <<"oauth", 1>>
    ELSE <<"report", 0>>

\* The state before run_all_server_tests is called on catalog `cat`, with any
\* subset of its authenticated servers registered.
InitRun(cat) ==
    /\ catalog = cat
    /\ app_ctx \in { [server_configs |-> S] :
                       S \in SUBSET ({ catalog.api_key_servers[i].server_name :
                                          i \in DOMAIN catalog.api_key_servers }
                                     \cup { catalog.oauth_servers[i].server_name :
                                          i \in DOMAIN catalog.oauth_servers }) }
    /\ hung = {}
    /\ pc = "start"
    /\ coro = [s \in Slots |-> Idle]
    /\ k = 0
    /\ results = <<>>
    /\ summary = None
    /\ saved = FALSE
    /\ returned = None
    /\ status_summary = None

Init ==
    InitRun([no_auth_tests |-> no_auth_tests,
             api_key_servers |-> Prefix(api_key_servers, MaxApiKey),
             oauth_servers |-> Prefix(oauth_servers, MaxOAuth)])

\* results = []; the coroutine objects are created and handed to gather
RunStart ==
    /\ pc = "start"
    /\ pc' = "gather"
    /\ coro' = [s \in Slots |->
                  IF s \in 1..Len(catalog.no_auth_tests)
                  THEN NoAuthCoro(catalog.no_auth_tests[s]) ELSE Idle]
    /\ UNCHANGED <<app_ctx, hung, status_summary, catalog, k, results, summary, saved, returned>>

\* A plausible slip: the probes awaited one after the other instead of
\* gathered.
StartTaskInTurn(s) ==
    /\ pc = "gather"
    /\ coro[s].pc = "created"
    /\ \A j \in 1..(s - 1) : Done(coro[j])
    /\ coro' = [coro EXCEPT ![s] = Enter(@, app_ctx)]
    /\ UNCHANGED <<app_ctx, hung, status_summary, catalog, pc, k, results, summary, saved, returned>>

\* The event loop starts gathered task s.  The environment may make a
\* statement outside the probe's try block raise (an unexpected fault).
StartTask(s) ==
    /\ pc = "gather"
    /\ coro[s].pc = "created"
    /\ \E fault \in BOOLEAN :
         coro' = [coro EXCEPT ![s] =
                    IF fault
                    THEN RaiseOut(@, Exc("RuntimeError", "unexpected fault"))
                    ELSE Enter(@, app_ctx)]
    /\ UNCHANGED <<app_ctx, hung, status_summary, catalog, pc, k, results, summary, saved, returned>>

\* A plausible slip: as if each call were wrapped in asyncio.wait_for, a call
\* to a server that never answers ends in a timeout.
ResumeTimesOut(s) ==
    /\ coro[s].pc = "await"
    /\ \E r \in (IF coro[s].server_name \in hung THEN { Raise("timeout") }
                 ELSE Responses(coro[s])) :
         coro' = [coro EXCEPT ![s] = Resumed(@, r)]
    /\ UNCHANGED <<app_ctx, hung, status_summary, catalog, pc, k, results, summary, saved, returned>>

\* call_tool answers the pending call of the coroutine in slot s, unless the
\* server is one that never answers.
Resume(s) ==
    /\ coro[s].pc = "await"
    /\ coro[s].server_name \notin hung
    /\ \E r \in Responses(coro[s]) :
         coro' = [coro EXCEPT ![s] = Resumed(@, r)]
    /\ UNCHANGED <<app_ctx, hung, status_summary, catalog, pc, k, results, summary, saved, returned>>

\* `for test_result in await asyncio.gather(...)`: the values are appended
\* once every task is done; without return_exceptions the first exception
\* propagates out of run_all_server_tests.
GatherJoin ==
    LET tasks == [i \in 1..Len(catalog.no_auth_tests) |-> coro[i]]
    IN /\ pc = "gather"
       /\ IF return_exceptions
          THEN /\ \A i \in DOMAIN tasks : Done(tasks[i])
               /\ results' = results \o Gathered(tasks)
               /\ pc' = Advance("api_key", 1)[1]
               /\ k' = Advance("api_key", 1)[2]
          ELSE IF \E i \in DOMAIN tasks : tasks[i].pc = "raised"
          THEN /\ pc' = "raised"
               /\ UNCHANGED <<k, results>>
          ELSE /\ \A i \in DOMAIN tasks : Done(tasks[i])
               /\ results' = results \o Gathered(tasks)
               /\ pc' = Advance("api_key", 1)[1]
               /\ k' = Advance("api_key", 1)[2]
       /\ UNCHANGED <<app_ctx, hung, status_summary, catalog, coro, summary, saved, returned>>

\* `result = await test_server_with_auth(...)` for entry k of the current list
BeginAuth ==
    /\ pc \in {"api_key", "oauth"}
    /\ coro[0].pc = "idle"
    /\ coro' = [coro EXCEPT ![0] = Enter(AuthCoro(PhaseList(pc)[k]), app_ctx)]
    /\ UNCHANGED <<app_ctx, hung, status_summary, catalog, pc, k, results, summary, saved, returned>>

\* `results.append(result)` and the next iteration
EndAuth ==
    /\ pc \in {"api_key", "oauth"}
    /\ coro[0].pc = "returned"
    /\ results' = Append(results, coro[0].ret)
    /\ coro' = [coro EXCEPT ![0] = Idle]
    /\ pc' = Advance(pc, k + 1)[1]
    /\ k' = Advance(pc, k + 1)[2]
    /\ UNCHANGED <<app_ctx, hung, status_summary, catalog, summary, saved, returned>>

\* The summary is built and saved to test_results/, and returned as JSON;
\* an OSError of mkdir or open propagates.
Finish ==
    /\ pc = "report"
    /\ summary' = Summarise(results)
    /\ \/ /\ saved' = TRUE
          /\ returned' = [json |-> summary']
          /\ pc' = "done"
       \/ /\ pc' = "raised"
          /\ UNCHANGED <<saved, returned>>
    /\ UNCHANGED <<app_ctx, hung, status_summary, catalog, coro, k, results>>

Next ==
    \/ RunStart
    \/ \E s \in TaskSlots : StartTask(s)
    \/ \E s \in Slots : Resume(s)
    \/ GatherJoin
    \/ BeginAuth
    \/ EndAuth
    \/ Finish

Spec == Init /\ [][Next]_vars

(***************************************************************************)
(* The same orchestration over the four-probe catalog of the end-to-end    *)
(* scenario: two no-auth probes, one API-key probe, one OAuth probe.       *)
(***************************************************************************)
InitScenario ==
    InitRun([no_auth_tests |-> Prefix(no_auth_tests, 2),
             api_key_servers |-> Prefix(api_key_servers, 1),
             oauth_servers |-> Prefix(oauth_servers, 1)])

SpecScenario == InitScenario /\ [][Next]_vars

(***************************************************************************)
(* A probe tool invoked on its own, with the context the caller passes     *)
(* (app_ctx defaults to None).                                             *)
(***************************************************************************)
InitProbe ==
    /\ catalog = [no_auth_tests |-> no_auth_tests,
                  api_key_servers |-> api_key_servers,
                  oauth_servers |-> oauth_servers]
    /\ app_ctx \in {None} \cup { [server_configs |-> S] : S \in {{}, AuthServers} }
    /\ hung = {}
    /\ pc = "direct"
    /\ \E c \in { NoAuthCoro(no_auth_tests[i]) : i \in DOMAIN no_auth_tests }
                  \cup { AuthCoro(e) : e \in AuthEntries } :
         coro = [s \in Slots |-> IF s = 0 THEN c ELSE Idle]
    /\ k = 0
    /\ results = <<>>
    /\ summary = None
    /\ saved = FALSE
    /\ returned = None
    /\ status_summary = None

\* the tool's coroutine runs up to its first await
Invoke ==
    /\ pc = "direct"
    /\ coro[0].pc = "created"
    /\ coro' = [coro EXCEPT ![0] = Enter(@, app_ctx)]
    /\ UNCHANGED <<app_ctx, hung, status_summary, catalog, pc, k, results, summary, saved, returned>>

NextProbe ==
    \/ Invoke
    \/ \E s \in Slots : Resume(s)

SpecProbe == InitProbe /\ [][NextProbe]_vars


(***************************************************************************)
(* The run under the scheduling of the event loop: a ready coroutine is    *)
(* eventually run, and call_tool eventually answers every call to a server *)
(* that is not hung.  No step of a run leads back to an earlier state, so  *)
(* weak fairness of Next is enough.                                        *)
(***************************************************************************)
Fairness == WF_vars(Next)

SpecLive == Init /\ [][Next]_vars /\ Fairness

\* The server names of the catalog `cat`.
AuthServersOf(cat) ==
    { cat.api_key_servers[i].server_name : i \in DOMAIN cat.api_key_servers }
    \cup { cat.oauth_servers[i].server_name : i \in DOMAIN cat.oauth_servers }

ServersOf(cat) ==
    { ServerOf(cat.no_auth_tests[i]) : i \in DOMAIN cat.no_auth_tests }
    \cup AuthServersOf(cat)

(***************************************************************************)
(* The same run when the calls to one server never return.  In SpecHang    *)
(* the server is any one of the catalog and every authenticated server is  *)
(* registered; in SpecHangGather it is one of the no-auth servers and no    *)
(* authenticated server is registered.                                     *)
(***************************************************************************)
InitHungIn(servers, server_configs) ==
    /\ catalog = [no_auth_tests |-> no_auth_tests,
                  api_key_servers |-> Prefix(api_key_servers, MaxApiKey),
                  oauth_servers |-> Prefix(oauth_servers, MaxOAuth)]
    /\ app_ctx = [server_configs |-> server_configs]
    /\ hung \in { {n} : n \in servers \cap ServersOf(catalog) }
    /\ pc = "start"
    /\ coro = [s \in Slots |-> Idle]
    /\ k = 0
    /\ results = <<>>
    /\ summary = None
    /\ saved = FALSE
    /\ returned = None
    /\ status_summary = None

InitHang == InitHungIn({ ServerOf(no_auth_tests[i]) : i \in DOMAIN no_auth_tests }
                          \cup AuthServers,
                       AuthServers)

SpecHang == InitHang /\ [][Next]_vars

InitHangGather ==
    InitHungIn({ ServerOf(no_auth_tests[i]) : i \in DOMAIN no_auth_tests }, {})

SpecHangGather == InitHangGather /\ [][Next]_vars /\ Fairness

(***************************************************************************)
(* The run over the whole catalog of fifteen servers, with a registry that *)
(* knows any of the servers of FullRunRegistered.                          *)
(***************************************************************************)
FullRunRegistered == {"supabase", "atlassian"}

InitFull ==
    /\ catalog = [no_auth_tests |-> no_auth_tests,
                  api_key_servers |-> api_key_servers,
                  oauth_servers |-> oauth_servers]
    /\ app_ctx \in { [server_configs |-> S] : S \in SUBSET FullRunRegistered }
    /\ hung = {}
    /\ pc = "start"
    /\ coro = [s \in Slots |-> Idle]
    /\ k = 0
    /\ results = <<>>
    /\ summary = None
    /\ saved = FALSE
    /\ returned = None
    /\ status_summary = None

SpecFull == InitFull /\ [][Next]_vars

(***************************************************************************)
(* get_server_status_summary.  The dict `servers` is the sequence of its   *)
(* items in insertion order; an entry "name - purpose" is the pair of its  *)
(* two parts.  The returned text is represented by what its lines are      *)
(* built from: the title, the items of `servers` and the total.            *)
(***************************************************************************)
servers ==
    << << "No Authentication Required",
          << <<"fetch", "Web requests and HTTP calls">>,
             <<"filesystem", "Local file operations">>,
             <<"playwright", "Browser automation">>,
             <<"sequential-thinking", "Structured reasoning">> >> >>,
       << "API Key Authentication",
          << <<"airweave-search", "Airweave knowledge base search">>,
             <<"circleci", "CI/CD pipeline information">>,
             <<"perplexity", "Web search and reasoning">>,
             <<"maps-grounding-lite", "Google Maps tools">>,
             <<"hubspot", "CRM data access">>,
             <<"supabase", "Database operations">> >> >>,
       << "OAuth/Remote Authentication",
          << <<"atlassian", "Jira and Confluence">>,
             <<"figma", "Design file access">>,
             <<"github", "GitHub repositories and actions">>,
             <<"linear", "Issue tracking">>,
             <<"notion", "Workspace content">> >> >> >>

\* A plausible slip: len(servers), the number of categories.
TotalIsCategories(items) == Len(items)

\* sum(len(s) for s in servers.values())
RECURSIVE Total(_)
Total(items) ==
    IF items = <<>> THEN 0 ELSE Len(Head(items)[2]) + Total(Tail(items))

\* "\n".join(summary)
StatusSummaryText ==
    [title |-> "MCP Server Configuration Summary",
     sections |-> [i \in DOMAIN servers |->
                     [category |-> servers[i][1], bullets |-> servers[i][2]]],
     total |-> <<"Total: ", Total(servers), " servers configured">>,
     hint |-> "Run 'run_all_server_tests' to test all servers"]

\* The tool get_server_status_summary is called, at any moment of a run; it
\* reads neither app_ctx nor anything else.
get_server_status_summary ==
    /\ status_summary = None
    /\ status_summary' = StatusSummaryText
    /\ UNCHANGED <<app_ctx, hung, catalog, pc, coro, k, results, summary, saved, returned>>

NextSummary ==
    \/ Next
    \/ get_server_status_summary

SpecSummary == InitFull /\ [][NextSummary]_vars
(***************************************************************************)
(* Properties                                                              *)
(***************************************************************************)
Statuses ==
    {"success", "not_configured", "auth_error", "oauth_required",
     "connection_error", "error"}

\* The probe of coroutine c run on its own and given the same answers.
RECURSIVE ReplayFrom(_, _, _)
ReplayFrom(c, answers, i) ==
    IF i > Len(answers) \/ c.pc # "await" THEN c
    ELSE ReplayFrom(Resumed(c, answers[i]), answers, i + 1)

Replay(c) ==
    ReplayFrom(Enter(Coro(c.fn, c.server_name, c.test_tool, c.transport), app_ctx),
               c.got, 1)

\* The classifier's rules as the specification lists them, in order.
Rules ==
    << [keywords |-> {"not found", "not configured", "no such server"},
        status |-> "not_configured",
        friendly |-> "Server or credentials not configured"],
       [keywords |-> {"unauthorized", "authentication", "forbidden", "401", "403"},
        status |-> "auth_error",
        friendly |-> "Authentication failed - check credentials/OAuth flow"],
       [keywords |-> {"timeout", "connection", "refused"},
        status |-> "connection_error",
        friendly |-> "Connection failed - server may be unreachable"],
       [keywords |-> {"oauth", "token"},
        status |-> "oauth_required",
        friendly |-> "OAuth authentication required - run oauth flow first"] >>

Matching(t) == { i \in DOMAIN Rules : AnyIn(Rules[i].keywords, t) }

\* the earliest matching rule's outcome, or GenericError with the raw text
FirstMatch(t) ==
    IF Matching(t) = {} THEN [status |-> "error", friendly |-> t]
    ELSE LET i == CHOOSE m \in Matching(t) : \A n \in Matching(t) : m <= n
         IN [status |-> Rules[i].status, friendly |-> Rules[i].friendly]

\* C1: in every report, total_servers is the number of entries of results and
\* the six per-outcome counters add up to total_servers.
C1_CountersPartitionResults ==
    summary # None =>
        LET t == summary.test_run
        IN /\ t.total_servers = Len(summary.results)
           /\ t.successful + t.not_configured + t.auth_errors + t.oauth_required
                + t.connection_errors + t.other_errors = t.total_servers

\* a finished run with a success, a probe-reported failure, a classified
\* failure, an unconfigured server and an exception captured by gather
C1_Witness ==
    /\ pc = "done"
    /\ \E i \in DOMAIN results : "server" \notin DOMAIN results[i]
    /\ \E i \in DOMAIN results :
          "server" \in DOMAIN results[i] /\ results[i].status = "error"
    /\ summary.test_run.successful > 0
    /\ summary.test_run.not_configured > 0
    /\ summary.test_run.connection_errors > 0

\* C2: a failed authenticated probe reports the outcome and friendly message of
\* the earliest rule (NotConfigured, AuthError, ConnectionError, OAuthRequired)
\* with a keyword in the lowercased error text, GenericError with the raw text
\* when none matches; the specification's four examples classify as stated.
C2_FirstMatchWins ==
    \A s \in Slots :
        LET c == coro[s]
        IN (c.fn = "test_server_with_auth" /\ c.pc = "returned"
              /\ c.got # <<>> /\ c.got[1].kind = "raise") =>
             LET t == c.got[1].exc.text
             IN /\ c.ret.status = FirstMatch(t).status
                /\ c.ret.error = FirstMatch(t).friendly
                /\ (t = "connection timeout, token expired"
                      => c.ret.status = "connection_error")
                /\ (t = "401 Unauthorized" => c.ret.status = "auth_error")
                /\ (t = "server not configured" => c.ret.status = "not_configured")
                /\ (t = "weird 500" => c.ret.status = "error" /\ c.ret.error = t)

\* a text with keywords of rules 3 and 4 has been classified
C2_Witness ==
    /\ coro[0].fn = "test_server_with_auth"
    /\ coro[0].pc = "returned"
    /\ coro[0].got = <<Raise("connection timeout, token expired")>>
    /\ coro[0].ret.status = "connection_error"
    /\ Matching("connection timeout, token expired") = {3, 4}

\* C3: results holds the no-auth entries first, entry i being the value of the
\* i-th gathered probe, then the API-key entries and then the OAuth entries,
\* each in catalog order.
C3_ResultsInCatalogOrder ==
    LET nI == Len(catalog.no_auth_tests)
        nA == Len(catalog.api_key_servers)
        nO == Len(catalog.oauth_servers)
    IN /\ \A i \in DOMAIN results :
            IF i <= nI
            THEN \/ /\ coro[i].pc = "returned"
                    /\ results[i] = coro[i].ret
                    /\ results[i].server = ServerOf(catalog.no_auth_tests[i])
                 \/ /\ coro[i].pc = "raised"
                    /\ "server" \notin DOMAIN results[i]
                    /\ results[i].error = coro[i].ret.text
            ELSE IF i <= nI + nA
            THEN results[i].server = catalog.api_key_servers[i - nI].server_name
            ELSE results[i].server = catalog.oauth_servers[i - nI - nA].server_name
       /\ summary # None =>
            /\ summary.results = results
            /\ Len(results) = nI + nA + nO

\* a report where the second no-auth probe failed and the first and third
\* succeeded
C3_Witness ==
    /\ pc = "done"
    /\ \A i \in 1..3 : "server" \in DOMAIN results[i]
    /\ results[1].status = "success" /\ results[1].server = "fetch"
    /\ results[2].status = "error" /\ results[2].server = "filesystem"
    /\ results[3].status = "success" /\ results[3].server = "playwright"
    /\ "server" \notin DOMAIN results[4]

\* C4: once the gather is over with a fault raised in one no-auth probe, the
\* run has not failed, and every other no-auth probe has returned and its entry
\* in results is what that probe returns on its own for the same answers.
C4_FaultIsolated ==
    (pc \notin {"start", "gather"} /\ \E i \in TaskSlots : coro[i].pc = "raised") =>
        /\ Len(results) >= Len(catalog.no_auth_tests)
        /\ \A j \in 1..Len(catalog.no_auth_tests) :
              coro[j].pc # "raised" =>
                 /\ coro[j].pc = "returned"
                 /\ results[j] = coro[j].ret
                 /\ results[j] = Replay(coro[j]).ret

\* a finished run where the second probe faulted, the first succeeded and the
\* third failed
C4_Witness ==
    /\ pc = "done"
    /\ coro[2].pc = "raised"
    /\ coro[1].pc = "returned" /\ results[1].status = "success"
    /\ coro[3].pc = "returned" /\ results[3].status = "error"
    /\ coro[4].pc = "returned" /\ results[4].status = "success"

\* The answers of which the probe reads the text.
Inspected(c) ==
    CASE c.fn = "test_playwright_server" -> {2}
      [] c.fn = "test_sequential_thinking_server" -> {1, 3}
      [] OTHER -> {1, 2}

NoText(r) ==
    r.kind = "none" \/ (r.kind = "result" /\ (r.content = <<>> \/ r.content[1].type # "text"))

\* C5: no probe raises to its caller, and a probe that met a failed call or an
\* answer without the text it reads returns a result whose status is not
\* success.
C5_ProbeNeverRaises ==
    \A s \in Slots :
        LET c == coro[s]
        IN /\ c.pc # "raised"
           /\ (c.pc = "returned"
                 /\ \E i \in DOMAIN c.got :
                       \/ c.got[i].kind = "raise"
                       \/ i \in Inspected(c) /\ NoText(c.got[i]))
                => c.ret.status # "success"

\* C6: an authenticated probe whose server is not in the registry's
\* server_configs makes no call_tool invocation and returns not_configured.
C6_UnconfiguredShortCircuit ==
    \A s \in Slots :
        LET c == coro[s]
        IN (c.fn = "test_server_with_auth" /\ app_ctx # None
              /\ c.server_name \notin app_ctx.server_configs) =>
             /\ c.calls = 0
             /\ c.got = <<>>
             /\ c.pc \in {"created", "returned"}
             /\ c.pc = "returned" => c.ret.status = "not_configured"

\* an unconfigured authenticated probe has returned
C6_Witness ==
    /\ app_ctx # None
    /\ coro[0].fn = "test_server_with_auth"
    /\ coro[0].server_name \notin app_ctx.server_configs
    /\ coro[0].pc = "returned"
    /\ coro[0].ret.status = "not_configured"
    /\ coro[0].calls = 0

\* the payload the probe validates is empty or minimal
EmptyOrMinimal(r) ==
    r.kind = "result" /\ (r.content = <<>>
                            \/ (r.content[1].type = "text" /\ r.content[1].len < 2))

\* C7: a probe whose calls all succeeded but whose last answer is an empty or
\* minimal payload does not report success.
C7_InvalidResponseNotSuccess ==
    \A s \in Slots :
        LET c == coro[s]
        IN (c.pc = "returned" /\ c.got # <<>>
              /\ (\A i \in DOMAIN c.got : c.got[i].kind # "raise")
              /\ EmptyOrMinimal(Last(c)))
             => c.ret.status # "success"

\* C8: a probe of any class that failed with error text t reports the
\* classifier's outcome for t as status, its friendly message as error and t
\* as error_detail.
C8_FailureClassified ==
    \A s \in Slots :
        LET c == coro[s]
        IN (c.pc = "returned" /\ c.got # <<>> /\ Last(c).kind = "raise") =>
             LET t == Last(c).exc.text
             IN /\ c.ret.status = Classify(t).status
                /\ c.ret.error = Classify(t).friendly_error
                /\ "error_detail" \in DOMAIN c.ret
                /\ c.ret.error_detail = t

\* C9: the end-to-end scenario yields total_servers=4, successful=1,
\* not_configured=1, connection_errors=1, auth_errors=1, oauth_required=0,
\* other_errors=0.
C9_EndToEndScenario ==
    (/\ pc = "done"
     /\ coro[1].pc = "returned" /\ coro[1].ret.status = "success"
     /\ coro[2].pc = "returned" /\ Last(coro[2]) = Raise("connection refused")
     /\ catalog.api_key_servers[1].server_name \notin app_ctx.server_configs
     /\ "error_detail" \in DOMAIN results[4]
     /\ results[4].error_detail = "403 Forbidden") =>
        LET t == summary.test_run
        IN /\ t.total_servers = 4
           /\ t.successful = 1
           /\ t.not_configured = 1
           /\ t.connection_errors = 1
           /\ t.auth_errors = 1
           /\ t.oauth_required = 0
           /\ t.other_errors = 0

\* C10: every entry of results has one of the six statuses, and two entries
\* with the same raw error text have the same status and friendly message.
C10_StatusClosedAndDeterministic ==
    /\ \A i \in DOMAIN results :
          "status" \in DOMAIN results[i] /\ results[i].status \in Statuses
    /\ \A i, j \in DOMAIN results :
          ("error_detail" \in DOMAIN results[i] /\ "error_detail" \in DOMAIN results[j]
             /\ results[i].error_detail = results[j].error_detail) =>
                /\ results[i].status = results[j].status
                /\ results[i].error = results[j].error

\* a report with an exception entry and two probes that failed with the same
\* text
C10_Witness ==
    /\ pc = "done"
    /\ \E i \in DOMAIN results : "server" \notin DOMAIN results[i]
    /\ \E i, j \in DOMAIN results :
          /\ i # j
          /\ "error_detail" \in DOMAIN results[i]
          /\ "error_detail" \in DOMAIN results[j]
          /\ results[i].error_detail = results[j].error_detail
          /\ results[i].server # results[j].server

\* The fields every entry of results is to carry.
CoreFields == {"server", "status", "transport", "auth_required", "timestamp"}

\* C11: every entry of results carries the fields server, status, transport,
\* auth_required and timestamp, the entry recorded for an exception captured
\* by gather included.
C11_EntriesCarryCoreFields ==
    \A i \in DOMAIN results : CoreFields \subseteq DOMAIN results[i]

\* C12: once the report is built it is returned to the caller, whether or not
\* it could be saved to test_results/.
C12_SaveFailureStillReturns ==
    summary # None => (pc = "done" /\ returned = [json |-> summary])

\* Every gathered probe is over and none of them succeeded.
AllIndepFailed ==
    /\ pc \notin {"start"}
    /\ \A i \in 1..Len(catalog.no_auth_tests) :
          \/ coro[i].pc = "raised"
          \/ coro[i].pc = "returned" /\ coro[i].ret.status # "success"

\* Entry j of the API-key list has been run and its result recorded.
ApiKeyRan(j) ==
    LET i == Len(catalog.no_auth_tests) + j
    IN /\ Len(results) >= i
       /\ "server" \in DOMAIN results[i]
       /\ results[i].server = catalog.api_key_servers[j].server_name

\* Entry j of the OAuth list has been run and its result recorded.
OAuthRan(j) ==
    LET i == Len(catalog.no_auth_tests) + Len(catalog.api_key_servers) + j
    IN /\ Len(results) >= i
       /\ "server" \in DOMAIN results[i]
       /\ results[i].server = catalog.oauth_servers[j].server_name

AuthPhasesRan ==
    /\ \A j \in DOMAIN catalog.api_key_servers : ApiKeyRan(j)
    /\ \A j \in DOMAIN catalog.oauth_servers : OAuthRan(j)

\* Some API-key probe has been run and did not succeed.
ApiKeyFailed ==
    \E j \in DOMAIN catalog.api_key_servers :
        ApiKeyRan(j) /\ results[Len(catalog.no_auth_tests) + j].status # "success"

\* C13: when every no-auth probe has failed or faulted, every API-key probe
\* and then every OAuth probe is still run; and when an API-key probe has
\* failed, every OAuth probe is still run.
C13_NoCrossPhaseCancellation ==
    /\ AllIndepFailed ~> AuthPhasesRan
    /\ ApiKeyFailed ~> (\A j \in DOMAIN catalog.oauth_servers : OAuthRan(j))

\* a finished run where no gathered probe succeeded, the API-key probe failed
\* too, and the OAuth probe was run and succeeded
C13_Witness ==
    /\ pc = "done"
    /\ AllIndepFailed
    /\ \E i \in 1..Len(catalog.no_auth_tests) : coro[i].pc = "raised"
    /\ \E i \in 1..Len(catalog.no_auth_tests) : coro[i].pc = "returned"
    /\ ApiKeyFailed
    /\ AuthPhasesRan
    /\ results[Len(results)].status = "success"

\* The number of results whose server is n.
EntriesOf(rs, n) ==
    Cardinality({ i \in DOMAIN rs : "server" \in DOMAIN rs[i] /\ rs[i].server = n })

\* C14: every report of a run over the whole catalog has total_servers = 15
\* = 4 + 6 + 5, its results holding one entry per catalog entry: the value of
\* each gathered probe, and one entry for each API-key and each OAuth server.
C14_OneResultPerCatalogEntry ==
    summary # None =>
        /\ Len(catalog.no_auth_tests) = 4
        /\ Len(catalog.api_key_servers) = 6
        /\ Len(catalog.oauth_servers) = 5
        /\ summary.test_run.total_servers = 15
        /\ Len(summary.results) = 15
        /\ \A i \in 1..4 :
              summary.results[i] =
                 IF coro[i].pc = "raised" THEN ExceptionEntry(coro[i].ret) ELSE coro[i].ret
        /\ \A n \in AuthServersOf(catalog) :
              EntriesOf(SubSeq(summary.results, 5, 15), n) = 1

\* a report over the whole catalog with a captured exception, a failed and a
\* successful no-auth probe, unconfigured servers, and a failed and a
\* successful authenticated probe
C14_Witness ==
    /\ pc = "done"
    /\ Len(catalog.api_key_servers) = 6 /\ Len(catalog.oauth_servers) = 5
    /\ summary.test_run.total_servers = 15
    /\ \E i \in 1..4 : coro[i].pc = "raised"
    /\ \E i \in 1..4 : coro[i].pc = "returned" /\ coro[i].ret.status = "error"
    /\ \E i \in 1..4 : coro[i].pc = "returned" /\ coro[i].ret.status = "success"
    /\ summary.test_run.not_configured = 9
    /\ results[10].status = "success"
    /\ results[11].status = "auth_error"

\* C15: an authenticated probe is in flight only once every gathered probe
\* is over; it is then entry k of the current list, every earlier entry of the
\* catalog having its result recorded and no later one; so no API-key probe
\* calls before the no-auth probes are over, no OAuth probe before the API-key
\* probes are over, and the authenticated probes run one at a time in catalog
\* order.
C15_PhasesSequentialAuthSerial ==
    LET nI == Len(catalog.no_auth_tests)
        nA == Len(catalog.api_key_servers)
    IN coro[0].pc # "idle" =>
          /\ pc \in {"api_key", "oauth"}
          /\ \A i \in 1..nI : Done(coro[i])
          /\ coro[0].fn = "test_server_with_auth"
          /\ pc = "api_key" =>
                /\ k \in 1..nA
                /\ coro[0].server_name = catalog.api_key_servers[k].server_name
                /\ Len(results) = nI + k - 1
                /\ \A j \in 1..(k - 1) : ApiKeyRan(j)
          /\ pc = "oauth" =>
                /\ k \in DOMAIN catalog.oauth_servers
                /\ coro[0].server_name = catalog.oauth_servers[k].server_name
                /\ Len(results) = nI + nA + k - 1
                /\ \A j \in 1..nA : ApiKeyRan(j)
                /\ \A j \in 1..(k - 1) : OAuthRan(j)

\* the first OAuth probe waiting for its call, after six API-key probes of
\* which the last made a call, and no-auth probes that made theirs
C15_Witness ==
    /\ pc = "oauth"
    /\ k = 1
    /\ coro[0].pc = "await"
    /\ Len(catalog.api_key_servers) = 6
    /\ \A j \in 1..6 : ApiKeyRan(j)
    /\ results[Len(catalog.no_auth_tests) + 6].status \in {"success", "auth_error"}
    /\ \E i \in TaskSlots : coro[i].calls = 3

\* Gathered probe i is suspended in a call that never returns.
HungIn(i) ==
    pc = "gather" /\ coro[i].pc = "await" /\ coro[i].server_name \in hung

\* C16: while a gathered probe is suspended in a call that never returns,
\* every other gathered probe still makes its calls and runs to completion.
C16_IndependentProbesDoNotBlock ==
    \A i \in TaskSlots :
        HungIn(i) ~> (HungIn(i) /\ \A j \in TaskSlots \ {i} : Done(coro[j]))

\* the first probe hung in its first call while the others have made all
\* their calls and returned, one of them successfully
C16_Witness ==
    /\ HungIn(1)
    /\ coro[1].calls = 1
    /\ \A j \in TaskSlots \ {1} : coro[j].pc = "returned" /\ coro[j].calls >= 1
    /\ coro[4].calls = 3
    /\ \E j \in TaskSlots : coro[j].pc = "returned" /\ coro[j].ret.status = "success"

\* Some gathered probe has been created and is not over yet.
IndepInFlight ==
    \E i \in TaskSlots : coro[i].pc \in {"created", "await"}

\* C17: results stays empty while a gathered probe is in flight, and a step
\* that changes results is never a step of a gathered probe: it is taken with
\* every gathered probe over and only adds entries at the end.
C17_SingleWriter ==
    /\ [](IndepInFlight => results = <<>>)
    /\ [][results' # results =>
             /\ ~IndepInFlight
             /\ \A i \in TaskSlots : coro'[i] = coro[i]
             /\ Len(results') > Len(results)
             /\ SubSeq(results', 1, Len(results)) = results]_vars

\* three probes over, one of them with a result to record, while the fourth
\* is still waiting for its third call
C17_Witness ==
    /\ pc = "gather"
    /\ coro[4].pc = "await" /\ coro[4].calls = 3
    /\ \A i \in 1..3 : coro[i].pc \in {"returned", "raised"}
    /\ coro[1].pc = "returned" /\ coro[1].ret.status = "success"
    /\ results = <<>>

StepsOf(fn) ==
    CASE fn = "test_sequential_thinking_server" -> 3
      [] fn = "test_server_with_auth" -> 1
      [] OTHER -> 2

\* C19: a probe whose call failed makes no further call and returns; no
\* probe makes more calls than it has steps; and no catalog entry is run a
\* second time: each server has at most one coroutine and one entry in
\* results, and in a report exactly one entry per authenticated server.
C19_NoRetry ==
    /\ \A s \in Slots :
          /\ coro[s].fn # "none" => coro[s].calls <= StepsOf(coro[s].fn)
          /\ \A i \in DOMAIN coro[s].got :
                coro[s].got[i].kind = "raise" =>
                   /\ i = Len(coro[s].got)
                   /\ coro[s].calls = i
                   /\ coro[s].pc = "returned"
    /\ \A s, t \in Slots :
          (s # t /\ coro[s].fn # "none" /\ coro[t].fn # "none") =>
             coro[s].server_name # coro[t].server_name
    /\ \A n \in ServersOf(catalog) : EntriesOf(results, n) <= 1
    /\ coro[0].fn # "none" => EntriesOf(results, coro[0].server_name) = 0
    /\ summary # None =>
          \A n \in AuthServersOf(catalog) : EntriesOf(summary.results, n) = 1

\* a report of a run where test_fetch_server's first call failed and its
\* second was never made, test_sequential_thinking_server's second call
\* failed, and an authenticated probe's call failed
C19_Witness ==
    /\ pc = "done"
    /\ coro[1].pc = "returned" /\ coro[1].calls = 1 /\ coro[1].got[1].kind = "raise"
    /\ coro[4].pc = "returned" /\ coro[4].calls = 2 /\ coro[4].got[2].kind = "raise"
    /\ \E i \in DOMAIN results :
          "error_detail" \in DOMAIN results[i] /\ results[i].status = "connection_error"

\* The probe of slot s is suspended in a call that never returns.
HungPending(s) == coro[s].pc = "await" /\ coro[s].server_name \in hung

\* C20: while a probe is suspended in a call that never returns, its phase
\* is not over and no report exists; and from then on the probe stays
\* suspended, the run stays in that phase at that entry, and nothing is added
\* to results.
C20_HungCallHangsPhase ==
    /\ [](\A s \in Slots :
            HungPending(s) =>
               /\ pc = (IF s \in TaskSlots THEN "gather"
                        ELSE IF coro[s].server_name \in
                                  { catalog.api_key_servers[j].server_name :
                                       j \in DOMAIN catalog.api_key_servers }
                        THEN "api_key" ELSE "oauth")
               /\ s \in TaskSlots => results = <<>>
               /\ summary = None /\ ~saved /\ returned = None)
    /\ [][\A s \in Slots :
             HungPending(s) =>
                /\ coro'[s] = coro[s]
                /\ pc' = pc /\ k' = k /\ results' = results
                /\ summary' = None]_vars

\* the OAuth probe hung in its call after the no-auth and API-key probes
\* were run and recorded
C20_Witness ==
    /\ pc = "oauth"
    /\ HungPending(0)
    /\ Len(results) = Len(catalog.no_auth_tests) + Len(catalog.api_key_servers)
    /\ \A i \in TaskSlots : coro[i].pc = "returned"

\* The report could not be saved: mkdir or open raised out of the run.
SaveFailed == pc = "raised" /\ summary # None /\ ~saved

\* C21: when every call is answered, by a payload or by an error, the run
\* ends: unless saving the report fails, run_all_server_tests returns the
\* report, whatever the outcomes of the probes.
C21_RunTerminates ==
    <>(SaveFailed \/ (pc = "done" /\ saved /\ returned = [json |-> summary]))

\* a returned report of a run with a captured fault, a failed call, a failed
\* authenticated probe and a successful one
C21_Witness ==
    /\ pc = "done" /\ saved /\ returned = [json |-> summary]
    /\ \E i \in TaskSlots : coro[i].pc = "raised"
    /\ \E i \in TaskSlots :
          coro[i].pc = "returned" /\ coro[i].got # <<>>
             /\ coro[i].got[Len(coro[i].got)].kind = "raise"
    /\ summary.test_run.oauth_required = 1
    /\ summary.test_run.successful >= 2

\* C22: in every report, total_errors is the sum of auth_errors,
\* oauth_required, connection_errors and other_errors, which is total_servers
\* less successful and not_configured; the not_configured entries, which
\* carry an error field, are not among the errors counted.
C22_TotalErrorsIsSumOfErrorCounters ==
    summary # None =>
        LET t == summary.test_run
            rs == summary.results
            unconfigured == { i \in DOMAIN rs : rs[i].status = "not_configured" }
        IN /\ t.total_errors = t.auth_errors + t.oauth_required
                                  + t.connection_errors + t.other_errors
           /\ t.total_errors = t.total_servers - t.successful - t.not_configured
           /\ \A i \in unconfigured : "error" \in DOMAIN rs[i]
           /\ t.total_errors <= Len(rs) - Cardinality(unconfigured)

\* a report with an unconfigured server, a failed authentication, two
\* failed no-auth probes and two successful ones
C22_Witness ==
    /\ summary # None
    /\ summary.test_run.not_configured = 1
    /\ summary.test_run.auth_errors = 1
    /\ summary.test_run.other_errors = 2
    /\ summary.test_run.successful = 2
    /\ summary.test_run.total_errors = 3

\* The server names a section of the summary lists, in order.
ListedNames(section) == [i \in DOMAIN section.bullets |-> section.bullets[i][1]]

\* C23: the text of get_server_status_summary has the three classes in the
\* order the run takes them, each listing the names of the servers the run
\* probes in that class, in the same order; its total is the number of
\* results of a report; it is the same text whenever it is produced; and the
\* step that produces it changes nothing of the run and makes no call.
C23_StaticSummaryAgreesWithCatalog ==
    /\ [](status_summary # None =>
            /\ status_summary = StatusSummaryText
            /\ Len(status_summary.sections) = 3
            /\ status_summary.sections[1].category = "No Authentication Required"
            /\ ListedNames(status_summary.sections[1])
                  = [i \in DOMAIN catalog.no_auth_tests |->
                        ServerOf(catalog.no_auth_tests[i])]
            /\ status_summary.sections[2].category = "API Key Authentication"
            /\ ListedNames(status_summary.sections[2])
                  = [i \in DOMAIN catalog.api_key_servers |->
                        catalog.api_key_servers[i].server_name]
            /\ status_summary.sections[3].category = "OAuth/Remote Authentication"
            /\ ListedNames(status_summary.sections[3])
                  = [i \in DOMAIN catalog.oauth_servers |->
                        catalog.oauth_servers[i].server_name]
            /\ summary # None =>
                  /\ status_summary.total[2] = Len(summary.results)
                  /\ status_summary.total[2] = summary.test_run.total_servers)
    /\ [][status_summary' # status_summary =>
             UNCHANGED <<app_ctx, hung, catalog, pc, coro, k, results, summary,
                         saved, returned>>]_vars

\* the summary produced at some moment of a run over the whole catalog that
\* has returned its report, the total being the number of results
C23_Witness ==
    /\ status_summary # None
    /\ pc = "done"
    /\ status_summary.total[2] = Len(results)
    /\ Len(results) = 15
    /\ summary.test_run.successful >= 1

====
